---- MODULE Spec2Model ----
(***************************************************************************)
(* Kubefirst-bot (src/index.js): the slash-command pipeline of a Probot    *)
(* app.  One pull request of one repository is modelled together with the  *)
(* platform state the handlers read and write (comment thread, labels,     *)
(* draft flag, reviews, merge state, collaborators).  Every event the app  *)
(* subscribes to starts one invocation of handlePRCommands; an invocation  *)
(* advances by one step per awaited platform call, so invocations          *)
(* interleave exactly at the awaits.                                       *)
(***************************************************************************)
EXTENDS Naturals, Sequences, FiniteSets

\* ------------------------------------------------------------------ bounds
MaxInvocations == 2      \* events delivered in one behaviour

\* --------------------------------------------------------------- identities
botUsername == "kubefirst-bot[bot]"
ownerusername == "owner"
DirectCollaborators == {"alice"}
HoldLabel == "hold"

\* The comments users post, as <<login, raw text>>: the owner (accepted without
\* a collaborator lookup), a direct collaborator and an outsider; the three
\* commands, a text that is no command, and a payload with an empty body.
CommentInputs ==
  {<<"owner", "/approve">>, <<"owner", "/hold">>, <<"owner", "/unhold">>,
   <<"owner", "">>,
   <<"alice", "/approve">>,
   <<"mallory", "/approve">>, <<"mallory", "/Approve">>}

\* The reviews users submit in the platform's own interface.
ReviewInputs == {<<"alice", "APPROVED">>}

\* The deployments examined: the threshold (index.js line 1 sets 1; a
\* deployment that asks for two approvals is examined too), and what the pull
\* request is when the app starts serving it, its draft flag and the reviews
\* it already carries.
Deployments ==
  {[required |-> 1, draft |-> FALSE, reviews |-> <<>>],
   [required |-> 1, draft |-> TRUE, reviews |-> <<>>],
   [required |-> 1, draft |-> FALSE,
    reviews |-> <<[user |-> "alice", state |-> "CHANGES_REQUESTED"],
                  [user |-> "alice", state |-> "APPROVED"],
                  [user |-> "alice", state |-> "APPROVED"]>>],
   [required |-> 2, draft |-> FALSE, reviews |-> <<>>]}

\* ------------------------------------------------------------ comment bodies
\* A body is a record of one shape, so that any two bodies can be compared:
\* a user's raw text, or one of the handler's template strings with its
\* parameters (who: the login in the template, n/m: the numbers in it).
Text(s) == [tpl |-> "text", text |-> s, who |-> "", n |-> 0, m |-> 0]
Tpl(t, w, a, b) == [tpl |-> t, text |-> "", who |-> w, n |-> a, m |-> b]
PermissionDeniedMsg(c) == Tpl("no-permission", c, 0, 0)
DuplicateMsg(c) == Tpl("already-used-command", c, 0, 0)
OnHoldMsg == Tpl("on-hold", "", 0, 0)
DraftMsg == Tpl("draft", "", 0, 0)
AlreadyApprovedMsg(c) == Tpl("already-approved", c, 0, 0)
ReviewFailedMsg == Tpl("review-failed", "", 0, 0)
MergedMsg == Tpl("merged", "", 0, 0)
MergeFailedMsg == Tpl("merge-failed", "", 0, 0)
StatusMsg(required, count) == Tpl("requires-approvals", "", required, count)
NoMsg == Tpl("none", "", 0, 0)

VARIABLES
  MIN_REQUIRED_APPROVALS, \* the configured threshold (index.js line 1)
  faulted,                \* platform: a call has failed (one failure per behaviour)
  collaborators,          \* platform: direct collaborators of the repository
  thread,                 \* platform: the comments of the pull request, oldest first
  labels,                 \* platform: the labels of the pull request
  draft,                  \* platform: the draft flag
  reviews,                \* platform: the reviews, oldest first
  merged,                 \* platform: the pull request has been merged
  invs,                   \* the invocations of handlePRCommands, in delivery order
  mergeLog                \* history: one record per call of pulls.merge

vars == <<MIN_REQUIRED_APPROVALS, faulted, collaborators, thread, labels, draft,
          reviews, merged, invs, mergeLog>>

config == <<MIN_REQUIRED_APPROVALS, collaborators>>
platform == <<thread, labels, draft, reviews, merged>>

\* ------------------------------------------------------------ pure helpers
\* Array.prototype.filter on a sequence, keeping the order.
RECURSIVE FilterApproved(_)
FilterApproved(rs) ==
  IF rs = <<>> THEN <<>>
  ELSE IF Head(rs).state = "APPROVED"
       THEN <<Head(rs)>> \o FilterApproved(Tail(rs))
       ELSE FilterApproved(Tail(rs))

\* Line 35: `!commentBody || !prNumber` (the empty string and null are falsy).
noCommand(commentBody, hasIssue) == commentBody = Text("") \/ ~hasIssue

isBotCommentNever(commenter) == FALSE

\* Line 39: the self-loop guard.
isBotComment(commenter) == commenter = botUsername

\* Lines 214-218: owner and bot are accepted without reading the collaborators.
isOwnerOrBot(username) == username = botUsername \/ username = ownerusername

isCollaboratorAnyone(collabs, username) == TRUE

\* Lines 224-227: collaborators.some(c => c.login === username).
isCollaborator(collabs, username) == \E c \in collabs : c = username

isDuplicateLastOnly(comments, commenter, commentBody) ==
  \E idx \in 1..Len(comments) :
     /\ comments[idx].user = commenter
     /\ comments[idx].body = commentBody
     /\ idx = Len(comments)

isDuplicateSkippingFirst(comments, commenter, commentBody) ==
  \E idx \in 1..Len(comments) :
     /\ comments[idx].user = commenter
     /\ comments[idx].body = commentBody
     /\ idx # 1

isDuplicateAdjacentOnly(comments, commenter, commentBody) ==
  \E idx \in 1..Len(comments) :
     /\ comments[idx].user = commenter
     /\ comments[idx].body = commentBody
     /\ idx = Len(comments) - 1

\* Lines 97-102: comments.some((comment, idx) => same user, same body, idx is
\* not the last index).  JavaScript indexes from 0, Sequences from 1.
isDuplicate(comments, commenter, commentBody) ==
  \E idx \in 1..Len(comments) :
     /\ comments[idx].user = commenter
     /\ comments[idx].body = commentBody
     /\ idx # Len(comments)

\* Lines 67-77: the three exact comparisons; any other text runs no handler.
dispatch(commentBody) ==
  IF commentBody = Text("/approve") THEN "pulls.get"
  ELSE IF commentBody = Text("/hold") THEN "issues.addLabels"
  ELSE IF commentBody = Text("/unhold") THEN "issues.removeLabel"
  ELSE "returned"

isHeldNever(prLabels) == FALSE

\* Line 124: pr.data.labels.some(label => label.name === "hold").
isHeld(prLabels) == \E l \in prLabels : l = HoldLabel

hasAlreadyApprovedLatestOnly(reviewsData, commenter) ==
  /\ reviewsData # <<>>
  /\ reviewsData[Len(reviewsData)].user = commenter
  /\ reviewsData[Len(reviewsData)].state = "APPROVED"

\* Lines 145-147.
hasAlreadyApproved(reviewsData, commenter) ==
  \E k \in 1..Len(reviewsData) :
     reviewsData[k].user = commenter /\ reviewsData[k].state = "APPROVED"

\* Lines 177-180: every APPROVED review of the fetched list, plus one.
approvalCountOf(reviewsData) == Len(FilterApproved(reviewsData)) + 1

meetsThresholdStrict(count, required) == count > required

\* Line 182.
meetsThreshold(count, required) == count >= required

approvePreconditionsDraftFirst(prLabels, prDraft, reviewsData, commenter) ==
  IF prDraft THEN [pc |-> "createComment", msg |-> DraftMsg]
  ELSE IF isHeld(prLabels) THEN [pc |-> "createComment", msg |-> OnHoldMsg]
  ELSE IF hasAlreadyApproved(reviewsData, commenter)
       THEN [pc |-> "createComment", msg |-> AlreadyApprovedMsg(commenter)]
  ELSE [pc |-> "pulls.createReview", msg |-> NoMsg]

approvePreconditionsApprovedFirst(prLabels, prDraft, reviewsData, commenter) ==
  IF isHeld(prLabels) THEN [pc |-> "createComment", msg |-> OnHoldMsg]
  ELSE IF hasAlreadyApproved(reviewsData, commenter)
       THEN [pc |-> "createComment", msg |-> AlreadyApprovedMsg(commenter)]
  ELSE IF prDraft THEN [pc |-> "createComment", msg |-> DraftMsg]
  ELSE [pc |-> "pulls.createReview", msg |-> NoMsg]

\* Lines 123-155: the outcome of approvePR's precondition checks, as the next
\* platform call and the comment it posts.
approvePreconditions(prLabels, prDraft, reviewsData, commenter) ==
  IF isHeld(prLabels) THEN [pc |-> "createComment", msg |-> OnHoldMsg]
  ELSE IF prDraft THEN [pc |-> "createComment", msg |-> DraftMsg]
  ELSE IF hasAlreadyApproved(reviewsData, commenter)
       THEN [pc |-> "createComment", msg |-> AlreadyApprovedMsg(commenter)]
  ELSE [pc |-> "pulls.createReview", msg |-> NoMsg]

\* Lines 29-42: handlePRCommands up to its first await.  An event without a
\* comment makes line 33 read `.user` of undefined, which throws.
entry(hasComment, hasIssue, commenter, commentBody) ==
  IF ~hasComment THEN "threw"
  ELSE IF noCommand(commentBody, hasIssue) THEN "returned"
  ELSE IF isBotComment(commenter) THEN "returned"
  ELSE "checkMaintainerOrBot"

\* ------------------------------------------------------------- invocations
Call(op, ok) == [op |-> op, ok |-> ok]

\* commentAt is the place of the event's comment in the thread (the payload
\* carries the comment's id), 0 for an event without a comment.
NewInvocation(kind, hasComment, hasIssue, commenter, commentBody, commentAt) ==
  [kind |-> kind, hasComment |-> hasComment, hasIssue |-> hasIssue,
   commenter |-> commenter, commentBody |-> commentBody, commentAt |-> commentAt,
   pc |-> entry(hasComment, hasIssue, commenter, commentBody),
   isMaintainer |-> FALSE, collabFetch |-> "none",
   isDuplicateCommand |-> FALSE, commentsFetch |-> "none", comments |-> <<>>,
   prFetched |-> FALSE, prLabels |-> {}, prDraft |-> FALSE,
   reviewsFetched |-> FALSE, reviewsData |-> <<>>,
   approvalCount |-> 0, msg |-> NoMsg, calls |-> <<>>]

Invocations == 1..Len(invs)
Ended(r) == r.pc \in {"returned", "threw"}
\* Any platform call may succeed (Ok) or fail (Fail); one failure is examined
\* per behaviour.
Ok == UNCHANGED faulted
Fail == ~faulted /\ faulted' = TRUE
Logged(r, op, ok) == [r EXCEPT !.calls = Append(@, Call(op, ok))]

Init ==
  /\ \E d \in Deployments :
        /\ MIN_REQUIRED_APPROVALS = d.required
        /\ draft = d.draft
        /\ reviews = d.reviews
  /\ faulted = FALSE
  /\ collaborators = DirectCollaborators
  /\ thread = <<>>
  /\ labels = {}
  /\ merged = FALSE
  /\ invs = <<>>
  /\ mergeLog = {}

\* ------------------------------------------------------------------ events
\* Lines 45-53 with 211-232: `await checkMaintainerOrBot`, then the branch on
\* its result.  The owner/bot shortcut of lines 216-218 returns before the
\* read; otherwise fetch is "ok" when listCollaborators answers and "failed"
\* when it throws, and the try/catch turns a failed read into `false`.
checkMaintainerOrBot(r, fetch) ==
  LET ok == \/ isOwnerOrBot(r.commenter)
            \/ fetch = "ok" /\ isCollaborator(collaborators, r.commenter)
      q == IF isOwnerOrBot(r.commenter) THEN r
           ELSE Logged([r EXCEPT !.collabFetch = fetch],
                       "repos.listCollaborators", fetch = "ok")
  IN [q EXCEPT !.isMaintainer = ok,
               !.pc = IF ok THEN "checkDuplicateCommand" ELSE "createComment",
               !.msg = IF ok THEN NoMsg ELSE PermissionDeniedMsg(r.commenter)]

\* Lines 11-16 and 28-53: an event starts handlePRCommands, which runs to its
\* first read of state that changes (the comment thread).  The collaborator
\* list never changes here, so reading it commutes with every other step and
\* is taken together with the entry.
Deliver(kind, hasComment, hasIssue, commenter, commentBody, commentAt) ==
  LET r == NewInvocation(kind, hasComment, hasIssue, commenter, commentBody, commentAt)
  IN /\ Len(invs) < MaxInvocations
     /\ IF r.pc # "checkMaintainerOrBot"
        THEN invs' = Append(invs, r) /\ Ok
        ELSE IF isOwnerOrBot(commenter)
        THEN invs' = Append(invs, checkMaintainerOrBot(r, "none")) /\ Ok
        ELSE \/ invs' = Append(invs, checkMaintainerOrBot(r, "ok")) /\ Ok
             \/ /\ Fail
                /\ invs' = Append(invs, checkMaintainerOrBot(r, "failed"))

\* "issue_comment.created": a user comments on the pull request; the platform
\* appends the comment to the thread and delivers the event.
IssueCommentCreated(a, t) ==
  /\ Deliver("issue_comment.created", TRUE, TRUE, a, Text(t), Len(thread) + 1)
  /\ thread' = Append(thread, [user |-> a, body |-> Text(t)])
  /\ UNCHANGED <<config, labels, draft, reviews, merged, mergeLog>>

\* "issue_comment.created" for the comment the app has just posted itself:
\* the event's actor is the app's own login.
BotCommentCreated ==
  /\ thread # <<>>
  /\ thread[Len(thread)].user = botUsername
  /\ Deliver("issue_comment.created", TRUE, TRUE, botUsername, thread[Len(thread)].body,
             Len(thread))
  /\ UNCHANGED <<config, platform, mergeLog>>

\* "issue_comment.created" delivered again for a user's comment that is
\* already in the thread: the transport delivers at least once.  The model
\* redelivers the owner's "/approve" comments, each at most once.
Redelivered(k) ==
  /\ thread[k].user = ownerusername
  /\ thread[k].body = Text("/approve")
  /\ \E i \in Invocations : invs[i].commentAt = k
  /\ \A i, j \in Invocations : invs[i].commentAt = k /\ invs[j].commentAt = k => i = j
  /\ Deliver("issue_comment.created", TRUE, TRUE, thread[k].user, thread[k].body, k)
  /\ UNCHANGED <<config, platform, mergeLog>>

\* "pull_request_review.submitted": a user submits a review in the platform's
\* own interface; the payload has no comment and no issue.
ReviewSubmitted(a, st) ==
  /\ Deliver("pull_request_review.submitted", FALSE, FALSE, a, Text(""), 0)
  /\ reviews' = Append(reviews, [user |-> a, state |-> st])
  /\ UNCHANGED <<config, thread, labels, draft, merged, mergeLog>>

\* "pull_request.opened": the first event of a pull request; the payload has
\* no comment and no issue.
PullRequestOpened ==
  /\ invs = <<>>
  /\ Deliver("pull_request.opened", FALSE, FALSE, ownerusername, Text(""), 0)
  /\ UNCHANGED <<config, platform, mergeLog>>

\* --------------------------------------------------- steps of an invocation
Set(i, r) == invs' = [invs EXCEPT ![i] = r]

\* Lines 103-106: the catch of checkDuplicateCommand answers `false`, the
\* command is taken as not a duplicate.
checkDuplicateCommandFailsClosed == TRUE

checkDuplicateCommandCaught == FALSE

\* Lines 166-174: the catch around createReview posts the error and returns.
createReviewCaughtNoReturn == [pc |-> "pulls.merge", msg |-> NoMsg]

createReviewCaught == [pc |-> "createComment", msg |-> ReviewFailedMsg]

\* Lines 239-244: addLabels with labels: ["hold"].
addLabelsOnHold(prLabels) == prLabels \cup {"on-hold"}

addLabels(prLabels) == prLabels \cup {HoldLabel}

\* Lines 262-265: the catch of unholdPR logs the error and falls off the end
\* of the function.
unholdPRRethrows == "threw"

unholdPRCaught == "returned"

\* Lines 56-77 with 87-107: `await checkDuplicateCommand`, then the branch on
\* its result and the dispatch.  The try/catch turns a failed read into `false`.
CheckDuplicateCommand(i) ==
  /\ invs[i].pc = "checkDuplicateCommand"
  /\ LET r == invs[i]
         Decide(q, dup) ==
           [q EXCEPT !.isDuplicateCommand = dup,
                     !.pc = IF dup THEN "createComment" ELSE dispatch(r.commentBody),
                     !.msg = IF dup THEN DuplicateMsg(r.commenter) ELSE NoMsg]
     IN \/ /\ Ok
           /\ Set(i, Decide(Logged([r EXCEPT !.commentsFetch = "ok", !.comments = thread],
                                   "issues.listComments", TRUE),
                            isDuplicate(thread, r.commenter, r.commentBody)))
        \/ /\ Fail
           /\ Set(i, Decide(Logged([r EXCEPT !.commentsFetch = "failed"],
                                   "issues.listComments", FALSE),
                            checkDuplicateCommandCaught))
  /\ UNCHANGED <<config, platform, mergeLog>>

\* Every `await context.octokit.issues.createComment(...)` of the file (lines
\* 47, 58, 126, 136, 149, 168, 185, 191, 198): none is inside a try block of
\* its own, each is the last call of its path, so success returns and failure
\* rejects the handler's promise.
CreateComment(i) ==
  /\ invs[i].pc = "createComment"
  /\ LET r == invs[i]
     IN \/ /\ Ok
           /\ thread' = Append(thread, [user |-> botUsername, body |-> r.msg])
           /\ Set(i, [Logged(r, "issues.createComment", TRUE) EXCEPT !.pc = "returned"])
        \/ /\ Fail
           /\ Set(i, [Logged(r, "issues.createComment", FALSE) EXCEPT !.pc = "threw"])
           /\ UNCHANGED thread
  /\ UNCHANGED <<config, labels, draft, reviews, merged, mergeLog>>

\* Lines 116-118: `await context.octokit.pulls.get(...)`, outside any try.
PullsGet(i) ==
  /\ invs[i].pc = "pulls.get"
  /\ LET r == invs[i]
     IN \/ /\ Ok
           /\ Set(i, [Logged(r, "pulls.get", TRUE)
                        EXCEPT !.prFetched = TRUE, !.prLabels = labels,
                               !.prDraft = draft, !.pc = "pulls.listReviews"])
        \/ /\ Fail
           /\ Set(i, [Logged(r, "pulls.get", FALSE) EXCEPT !.pc = "threw"])
  /\ UNCHANGED <<config, platform, mergeLog>>

\* Lines 119-155: `await context.octokit.pulls.listReviews(...)`, outside any
\* try, then the three precondition checks on the two snapshots.
ListReviews(i) ==
  /\ invs[i].pc = "pulls.listReviews"
  /\ LET r == invs[i]
         nxt == approvePreconditions(r.prLabels, r.prDraft, reviews, r.commenter)
     IN \/ /\ Ok
           /\ Set(i, [Logged(r, "pulls.listReviews", TRUE)
                        EXCEPT !.reviewsFetched = TRUE, !.reviewsData = reviews,
                               !.pc = nxt.pc, !.msg = nxt.msg])
        \/ /\ Fail
           /\ Set(i, [Logged(r, "pulls.listReviews", FALSE) EXCEPT !.pc = "threw"])
  /\ UNCHANGED <<config, platform, mergeLog>>

\* Lines 158-182 and 197-203: `await context.octokit.pulls.createReview(...)`
\* inside try/catch, then the approval count and the merge decision.  The
\* review is authored by the app, whose token makes the call.
CreateReview(i) ==
  /\ invs[i].pc = "pulls.createReview"
  /\ LET r == invs[i]
         count == approvalCountOf(r.reviewsData)
         go == meetsThreshold(count, MIN_REQUIRED_APPROVALS)
     IN \/ /\ Ok
           /\ reviews' = Append(reviews, [user |-> botUsername, state |-> "APPROVED"])
           /\ Set(i, [Logged(r, "pulls.createReview", TRUE)
                        EXCEPT !.approvalCount = count,
                               !.pc = IF go THEN "pulls.merge" ELSE "createComment",
                               !.msg = IF go THEN NoMsg
                                       ELSE StatusMsg(MIN_REQUIRED_APPROVALS, count)])
        \/ /\ Fail
           /\ Set(i, [Logged(r, "pulls.createReview", FALSE)
                        EXCEPT !.pc = createReviewCaught.pc,
                               !.msg = createReviewCaught.msg])
           /\ UNCHANGED reviews
  /\ UNCHANGED <<config, thread, labels, draft, merged, mergeLog>>

\* Lines 183-196: `await context.octokit.pulls.merge(...)` inside try/catch;
\* the comment that follows is posted by the next step.
Merge(i) ==
  /\ invs[i].pc = "pulls.merge"
  /\ LET r == invs[i]
     IN /\ mergeLog' = mergeLog \cup
                         {[inv |-> i, heldAtCall |-> HoldLabel \in labels,
                           heldInSnapshot |-> HoldLabel \in r.prLabels]}
        /\ \/ /\ Ok
              /\ merged' = TRUE
              /\ Set(i, [Logged(r, "pulls.merge", TRUE)
                           EXCEPT !.pc = "createComment", !.msg = MergedMsg])
           \/ /\ Fail
              /\ Set(i, [Logged(r, "pulls.merge", FALSE)
                           EXCEPT !.pc = "createComment", !.msg = MergeFailedMsg])
              /\ UNCHANGED merged
  /\ UNCHANGED <<config, thread, labels, draft, reviews>>

\* Lines 239-247: holdPR; `await context.octokit.issues.addLabels(...)` is
\* outside any try.  Adding a label the issue already has succeeds.
HoldPR(i) ==
  /\ invs[i].pc = "issues.addLabels"
  /\ LET r == invs[i]
     IN \/ /\ Ok
           /\ labels' = addLabels(labels)
           /\ Set(i, [Logged(r, "issues.addLabels", TRUE) EXCEPT !.pc = "returned"])
        \/ /\ Fail
           /\ Set(i, [Logged(r, "issues.addLabels", FALSE) EXCEPT !.pc = "threw"])
           /\ UNCHANGED labels
  /\ UNCHANGED <<config, thread, draft, reviews, merged, mergeLog>>

\* Lines 254-266: unholdPR; the call is inside try/catch, a failure is only
\* logged.  The platform answers 404 when the issue does not have the label.
UnholdPR(i) ==
  /\ invs[i].pc = "issues.removeLabel"
  /\ LET r == invs[i]
     IN \/ /\ HoldLabel \in labels
           /\ Ok
           /\ labels' = labels \ {HoldLabel}
           /\ Set(i, [Logged(r, "issues.removeLabel", TRUE) EXCEPT !.pc = "returned"])
        \/ /\ (HoldLabel \notin labels /\ Ok) \/ Fail
           /\ Set(i, [Logged(r, "issues.removeLabel", FALSE) EXCEPT !.pc = unholdPRCaught])
           /\ UNCHANGED labels
  /\ UNCHANGED <<config, thread, draft, reviews, merged, mergeLog>>

\* ------------------------------------------------------------ specification
Next ==
  \/ \E c \in CommentInputs : IssueCommentCreated(c[1], c[2])
  \/ BotCommentCreated
  \/ \E k \in 1..Len(thread) : Redelivered(k)
  \/ \E v \in ReviewInputs : ReviewSubmitted(v[1], v[2])
  \/ PullRequestOpened
  \/ \E i \in Invocations : CheckDuplicateCommand(i)
  \/ \E i \in Invocations : CreateComment(i)
  \/ \E i \in Invocations : PullsGet(i)
  \/ \E i \in Invocations : ListReviews(i)
  \/ \E i \in Invocations : CreateReview(i)
  \/ \E i \in Invocations : Merge(i)
  \/ \E i \in Invocations : HoldPR(i)
  \/ \E i \in Invocations : UnholdPR(i)

Spec == Init /\ [][Next]_vars

\* ---------------------------------------------------------------- properties
\* What the properties read off an invocation r.
Called(r, op) == \E k \in 1..Len(r.calls) : r.calls[k].op = op
Succeeded(r, op) == \E k \in 1..Len(r.calls) : r.calls[k].op = op /\ r.calls[k].ok
CalledOnce(r, op) ==
  \E k \in 1..Len(r.calls) :
     /\ r.calls[k].op = op
     /\ \A j \in 1..Len(r.calls) : r.calls[j].op = op => j = k
CalledAny(r, ops) == \E k \in 1..Len(r.calls) : r.calls[k].op \in ops
Mutations ==
  {"issues.createComment", "pulls.createReview", "pulls.merge",
   "issues.addLabels", "issues.removeLabel"}
HandlerCalls ==
  {"pulls.get", "pulls.listReviews", "pulls.createReview", "pulls.merge",
   "issues.addLabels", "issues.removeLabel"}
IsCommandText(body) == body \in {Text("/approve"), Text("/hold"), Text("/unhold")}
\* r posts the comment `msg` and nothing else: the comment is pending, or it is
\* the one createComment call r made, after which r ended.
PostsOnly(r, msg) ==
  /\ r.msg = msg
  /\ \/ r.pc = "createComment" /\ ~Called(r, "issues.createComment")
     \/ /\ Ended(r)
        /\ r.calls[Len(r.calls)].op = "issues.createComment"
        /\ CalledOnce(r, "issues.createComment")
\* The code as shipped (index.js line 1).
Shipped == MIN_REQUIRED_APPROVALS = 1
ApprovedIn(reviewsData) ==
  {k \in 1..Len(reviewsData) : reviewsData[k].state = "APPROVED"}
DistinctApprovers(reviewsData) ==
  {reviewsData[k].user : k \in ApprovedIn(reviewsData)}

\* C1: an event whose comment body is none of '/approve', '/hold', '/unhold'
\* makes handlePRCommands perform no platform mutation at all.
C1_NonCommandNoMutation ==
  Shipped =>
    \A i \in Invocations :
       ~IsCommandText(invs[i].commentBody) => ~CalledAny(invs[i], Mutations)

\* C2 (as claimed): pulls.merge is never called at a moment when the pull
\* request carries the 'hold' label.
C2_NeverMergeWhileHeld ==
  Shipped => \A m \in mergeLog : ~m.heldAtCall

\* C2 (amended): pulls.merge is never called by an invocation whose own
\* pulls.get snapshot carried the 'hold' label.
C2_NeverMergeWithHeldSnapshot ==
  \A m \in mergeLog : ~m.heldInSnapshot

C2_Witness ==
  \E m \in mergeLog : m.heldAtCall /\ ~m.heldInSnapshot

\* C3: an /approve whose pull-request snapshot carries 'hold' never calls
\* createReview or merge, whatever the draft flag and the reviews are; once
\* both reads have answered it posts the on-hold comment and ends.
C3_HeldApproveCreatesNoReview ==
  \A i \in Invocations :
     LET r == invs[i]
     IN r.prFetched /\ HoldLabel \in r.prLabels =>
          /\ ~Called(r, "pulls.createReview")
          /\ ~Called(r, "pulls.merge")
          /\ r.reviewsFetched => PostsOnly(r, OnHoldMsg)

C3_Witness ==
  \E i \in Invocations :
     LET r == invs[i]
     IN /\ r.prFetched /\ HoldLabel \in r.prLabels /\ r.prDraft
        /\ Ended(r) /\ Succeeded(r, "issues.createComment")

\* C4: a command of an actor that is neither owner nor bot, and is not in the
\* collaborator list or whose collaborator read failed, posts exactly one
\* permission-denied comment naming the actor, makes no other mutation,
\* reaches no handler, and the failed read does not throw.
C4_OutsiderIsDenied ==
  \A i \in Invocations :
     LET r == invs[i]
     IN /\ r.commenter \notin {ownerusername, botUsername}
        /\ \/ r.collabFetch = "failed"
           \/ r.collabFetch = "ok" /\ r.commenter \notin collaborators
        => /\ PostsOnly(r, PermissionDeniedMsg(r.commenter))
           /\ ~CalledAny(r, Mutations \ {"issues.createComment"})
           /\ ~CalledAny(r, HandlerCalls \cup {"issues.listComments"})
           /\ r.pc = "threw" => ~r.calls[Len(r.calls)].ok
                                /\ r.calls[Len(r.calls)].op = "issues.createComment"

C4_Witness ==
  \E i \in Invocations :
     LET r == invs[i]
     IN /\ r.collabFetch = "failed" /\ r.commenter \in collaborators
        /\ r.pc = "returned" /\ Succeeded(r, "issues.createComment")

C6_DuplicateIsRejected ==
  \A i \in Invocations :
     LET r == invs[i]
     IN /\ r.commentsFetch = "ok"
        /\ \E k \in 1..(Len(r.comments) - 1) :
              r.comments[k] = [user |-> r.commenter, body |-> r.commentBody]
        => /\ PostsOnly(r, DuplicateMsg(r.commenter))
           /\ ~CalledAny(r, HandlerCalls)

C6_Witness ==
  \E i \in Invocations :
     LET r == invs[i]
     IN /\ r.commentsFetch = "ok"
        /\ \E k \in 1..(Len(r.comments) - 1) :
              r.comments[k] = [user |-> r.commenter, body |-> r.commentBody]
        /\ r.pc = "returned" /\ Succeeded(r, "issues.createComment")

\* C7: after a successful createReview the approval count equals the number
\* of distinct approvers in the fetched review list (several APPROVED reviews
\* of one actor counted once, other states not counted) plus one.
C7_CountsDistinctApprovals ==
  Shipped =>
    \A i \in Invocations :
       LET r == invs[i]
       IN Succeeded(r, "pulls.createReview") =>
            r.approvalCount = Cardinality(DistinctApprovers(r.reviewsData)) + 1

\* C8: within one /approve, merge is called if and only if createReview
\* succeeded and the approval count reaches the threshold; below the threshold
\* no merge is called and one status comment states the count and the threshold.
C8_MergeIffThresholdMet ==
  \A i \in Invocations :
     LET r == invs[i]
         count == Cardinality(ApprovedIn(r.reviewsData)) + 1
         reached == count >= MIN_REQUIRED_APPROVALS
     IN /\ Called(r, "pulls.merge") =>
             Succeeded(r, "pulls.createReview") /\ reached
        /\ Succeeded(r, "pulls.createReview") /\ reached =>
             r.pc = "pulls.merge" \/ CalledOnce(r, "pulls.merge")
        /\ Succeeded(r, "pulls.createReview") /\ ~reached =>
             /\ ~Called(r, "pulls.merge")
             /\ PostsOnly(r, StatusMsg(MIN_REQUIRED_APPROVALS, count))

C8_Witness ==
  \E i \in Invocations :
     LET r == invs[i]
     IN /\ MIN_REQUIRED_APPROVALS = 2
        /\ r.reviewsData = <<>>
        /\ Succeeded(r, "pulls.createReview")
        /\ r.pc = "returned"
        /\ r.msg = StatusMsg(2, 1)

\* C9: no error escapes handlePRCommands, for every event shape and every
\* failing platform call.
C9_NoErrorEscapes ==
  Shipped => \A i \in Invocations : invs[i].pc # "threw"

\* C10: an /approve of an actor who has an APPROVED review in the fetched
\* list, on a pull request that is neither held nor a draft, is rejected with
\* the already-approved comment; createReview and merge are not called.
C10_SecondApprovalIsRejected ==
  \A i \in Invocations :
     LET r == invs[i]
     IN /\ r.reviewsFetched
        /\ HoldLabel \notin r.prLabels
        /\ ~r.prDraft
        /\ r.commenter \in DistinctApprovers(r.reviewsData)
        => /\ ~Called(r, "pulls.createReview")
           /\ ~Called(r, "pulls.merge")
           /\ PostsOnly(r, AlreadyApprovedMsg(r.commenter))

C10_Witness ==
  \E i \in Invocations :
     LET r == invs[i]
     IN /\ r.reviewsFetched
        /\ r.commenter \in DistinctApprovers(r.reviewsData)
        /\ r.pc = "returned"
        /\ r.msg = AlreadyApprovedMsg(r.commenter)
        /\ Succeeded(r, "issues.createComment")

\* C11: a /hold whose addLabels call succeeds leaves the pull request
\* carrying the "hold" label (whether or not it carried it before) and posts
\* no comment; the label then stays until an /unhold invocation removes it;
\* and an /approve that reads the pull request while the label is there sees
\* it in its snapshot and is turned to the on-hold comment without a review.
C11_HoldBlocksLaterApprove ==
  [][/\ \A i \in Invocations :
          (invs[i].pc = "issues.addLabels" /\ invs'[i].pc = "returned")
            => /\ HoldLabel \in labels'
               /\ ~Called(invs'[i], "issues.createComment")
     /\ (HoldLabel \in labels /\ HoldLabel \notin labels')
          => \E i \in Invocations :
                /\ invs[i].commentBody = Text("/unhold")
                /\ invs[i].pc = "issues.removeLabel"
                /\ invs'[i].pc = "returned"
     /\ \A i \in Invocations :
          (invs[i].pc = "pulls.get" /\ invs'[i].pc = "pulls.listReviews"
             /\ HoldLabel \in labels)
            => HoldLabel \in invs'[i].prLabels
     /\ \A i \in Invocations :
          (invs[i].pc = "pulls.listReviews" /\ invs'[i].reviewsFetched
             /\ HoldLabel \in invs[i].prLabels)
            => /\ invs'[i].pc = "createComment"
               /\ invs'[i].msg = OnHoldMsg
               /\ ~Called(invs'[i], "pulls.createReview")]_vars

\* The owner's /hold has added the label without a comment, and alice's
\* /approve, delivered afterwards, has ended with the on-hold comment.
C11_Witness ==
  \E i, j \in Invocations :
     /\ i < j
     /\ invs[i].commenter = ownerusername /\ invs[i].commentBody = Text("/hold")
     /\ Succeeded(invs[i], "issues.addLabels")
     /\ ~Called(invs[i], "issues.createComment")
     /\ invs[j].commenter = "alice" /\ invs[j].commentBody = Text("/approve")
     /\ HoldLabel \in invs[j].prLabels
     /\ invs[j].pc = "returned" /\ invs[j].msg = OnHoldMsg
     /\ Succeeded(invs[j], "issues.createComment")
     /\ ~Called(invs[j], "pulls.createReview")
     /\ HoldLabel \in labels

\* C12: an /unhold that reaches removeLabel while the pull request has no
\* "hold" label (the call fails) ends normally, having posted no comment, and
\* the step leaves labels, reviews, merge state and thread as they were.
C12_FailedUnholdIsSilent ==
  [][\A i \in Invocations :
        (invs[i].pc = "issues.removeLabel" /\ invs'[i] # invs[i]
           /\ HoldLabel \notin labels)
          => /\ invs'[i].pc = "returned"
             /\ ~Succeeded(invs'[i], "issues.removeLabel")
             /\ ~Called(invs'[i], "issues.createComment")
             /\ UNCHANGED <<thread, labels, reviews, merged>>]_vars

\* The owner's /unhold has ended after a removeLabel the platform refused,
\* no call having been made to fail by an outage.
C12_Witness ==
  \E i \in Invocations :
     /\ invs[i].commenter = ownerusername /\ invs[i].commentBody = Text("/unhold")
     /\ Called(invs[i], "issues.removeLabel")
     /\ ~Succeeded(invs[i], "issues.removeLabel")
     /\ invs[i].pc = "returned"
     /\ ~Called(invs[i], "issues.createComment")
     /\ ~faulted /\ HoldLabel \notin labels /\ ~merged

\* The first call of the handler a command text is dispatched to.
HandlerEntry(body) ==
  IF body = Text("/approve") THEN "pulls.get"
  ELSE IF body = Text("/hold") THEN "issues.addLabels"
  ELSE IF body = Text("/unhold") THEN "issues.removeLabel"
  ELSE "returned"

\* C13: an invocation whose listComments read failed is not a duplicate: it
\* has no "already used" comment to post, the failure does not end it with
\* an error, and what follows the read is the first call of the handler of
\* its command, whatever the thread holds.
C13_FailedThreadReadIsNotDuplicate ==
  \A i \in Invocations :
     LET r == invs[i]
     IN r.commentsFetch = "failed"
          => /\ ~r.isDuplicateCommand
             /\ r.msg # DuplicateMsg(r.commenter)
             /\ \E k \in 1..Len(r.calls) :
                   /\ r.calls[k].op = "issues.listComments" /\ ~r.calls[k].ok
                   /\ IF k < Len(r.calls)
                      THEN r.calls[k + 1].op = HandlerEntry(r.commentBody)
                      ELSE r.pc = HandlerEntry(r.commentBody)

\* A command whose actor had posted the same text earlier in the thread has
\* lost its thread read and has made its handler's first call.
C13_Witness ==
  \E i \in Invocations :
     LET r == invs[i]
     IN /\ r.commentsFetch = "failed"
        /\ IsCommandText(r.commentBody)
        /\ \E k \in 1..(r.commentAt - 1) :
              thread[k] = [user |-> r.commenter, body |-> r.commentBody]
        /\ Called(r, HandlerEntry(r.commentBody))

\* C14: every event without a comment body or without a pull request number,
\* the pull-request-opened and review-submitted events among them, is
\* filtered: its invocation returns at once, with no platform call and no
\* error.
C14_EventsWithoutCommandAreFiltered ==
  Shipped =>
    \A i \in Invocations :
       LET r == invs[i]
       IN (r.commentBody = Text("") \/ ~r.hasIssue \/ ~r.hasComment)
            => r.pc = "returned" /\ r.calls = <<>>

\* C15: approvePR checks hold, then draft, then already-approved, and stops at
\* the first that fails: such an invocation posts one comment, the on-hold one
\* if the snapshot is held, else the draft one if it is a draft, else the
\* already-approved one, and calls neither createReview nor merge; an
\* /approve on a draft pull request never calls createReview.
C15_PreconditionsInOrder ==
  \A i \in Invocations :
     LET r == invs[i]
         held == HoldLabel \in r.prLabels
         approved == r.commenter \in DistinctApprovers(r.reviewsData)
     IN /\ (r.reviewsFetched /\ (held \/ r.prDraft \/ approved))
             => /\ ~Called(r, "pulls.createReview")
                /\ ~Called(r, "pulls.merge")
                /\ PostsOnly(r, IF held THEN OnHoldMsg
                                ELSE IF r.prDraft THEN DraftMsg
                                ELSE AlreadyApprovedMsg(r.commenter))
        /\ (r.prFetched /\ r.prDraft) => ~Called(r, "pulls.createReview")

\* alice, who has approved the pull request in the platform's interface,
\* commands /approve on the draft and is answered with the draft comment.
C15_Witness ==
  \E i \in Invocations :
     LET r == invs[i]
     IN /\ r.reviewsFetched
        /\ HoldLabel \notin r.prLabels
        /\ r.prDraft
        /\ r.commenter \in DistinctApprovers(r.reviewsData)
        /\ r.pc = "returned"
        /\ r.msg = DraftMsg
        /\ Succeeded(r, "issues.createComment")

\* C16: a failed createReview is answered with one comment carrying the
\* error, is not retried and is not followed by a merge; a failed merge after
\* a successful createReview is answered with one comment carrying the merge
\* error, and the review that was created stays on the pull request.
C16_FailuresAreReported ==
  \A i \in Invocations :
     LET r == invs[i]
     IN /\ (Called(r, "pulls.createReview") /\ ~Succeeded(r, "pulls.createReview"))
             => /\ CalledOnce(r, "pulls.createReview")
                /\ ~Called(r, "pulls.merge")
                /\ PostsOnly(r, ReviewFailedMsg)
        /\ (Called(r, "pulls.merge") /\ ~Succeeded(r, "pulls.merge"))
             => /\ Succeeded(r, "pulls.createReview")
                /\ CalledOnce(r, "pulls.merge")
                /\ PostsOnly(r, MergeFailedMsg)
                /\ Len(reviews) > Len(r.reviewsData)
                /\ \E k \in 1..Len(reviews) :
                      reviews[k] = [user |-> botUsername, state |-> "APPROVED"]

\* An /approve that passed its preconditions has lost createReview and has
\* ended with the comment that reports it.
C16_Witness ==
  \E i \in Invocations :
     LET r == invs[i]
     IN /\ Called(r, "pulls.createReview")
        /\ ~Succeeded(r, "pulls.createReview")
        /\ r.pc = "returned"
        /\ r.msg = ReviewFailedMsg
        /\ Succeeded(r, "issues.createComment")
        /\ ~merged

\* An /approve has created its review, has lost the merge and has ended with
\* the comment that reports it; the pull request is not merged.
C16_WitnessMergeFailed ==
  \E i \in Invocations :
     LET r == invs[i]
     IN /\ Succeeded(r, "pulls.createReview")
        /\ Called(r, "pulls.merge")
        /\ ~Succeeded(r, "pulls.merge")
        /\ r.pc = "returned"
        /\ r.msg = MergeFailedMsg
        /\ Succeeded(r, "issues.createComment")
        /\ ~merged

\* Every comment event so far has been delivered once.
DeliveredOnce ==
  \A i, j \in Invocations :
     (i < j /\ invs[i].commentAt # 0) => invs[i].commentAt # invs[j].commentAt

\* C17: where two approvals are required, merge is not invoked on a pull
\* request on which one actor alone has commanded /approve (each comment
\* delivered once, no review submitted outside the Approve handler), whatever
\* that actor's commands and whatever reads fail.
C17_OneActorCannotMerge ==
  (/\ MIN_REQUIRED_APPROVALS >= 2
   /\ DeliveredOnce
   /\ \A k, l \in 1..Len(thread) :
         (thread[k].body = Text("/approve") /\ thread[l].body = Text("/approve"))
           => thread[k].user = thread[l].user
   /\ \A k \in 1..Len(reviews) : reviews[k].user = botUsername)
    => mergeLog = {}

\* C18: a command whose actor has posted no identical comment but the one
\* that triggered it is not rejected as a duplicate, whatever other users or
\* the app have appended to the thread between that comment and the read of
\* the thread.
C18_FirstUseIsNeverDuplicate ==
  (Shipped /\ DeliveredOnce) =>
    \A i \in Invocations :
       LET r == invs[i]
       IN (/\ r.commentsFetch = "ok"
           /\ IsCommandText(r.commentBody)
           /\ \A k \in 1..Len(thread) :
                 thread[k] = [user |-> r.commenter, body |-> r.commentBody]
                   => k = r.commentAt)
            => ~r.isDuplicateCommand

\* r has got past the duplicate filter with a thread it could read.
ReachedHandler(r) == r.commentsFetch = "ok" /\ ~r.isDuplicateCommand

SecondDelivery(i, j) ==
  /\ i < j
  /\ invs[i].commentAt # 0
  /\ invs[i].commentAt = invs[j].commentAt
  /\ invs[j].commenter # botUsername

\* C20 as claimed: the invocation of a second delivery of an /approve event
\* creates no review after the first delivery's and invokes no merge after
\* the first delivery's, run after the first or interleaved with it.
C20_RedeliveryDoesNothingFurther ==
  Shipped =>
    \A i, j \in Invocations :
       (SecondDelivery(i, j) /\ invs[j].commentBody = Text("/approve"))
         => /\ ~(Called(invs[i], "pulls.createReview")
                  /\ Called(invs[j], "pulls.createReview"))
            /\ ~(Called(invs[i], "pulls.merge") /\ Called(invs[j], "pulls.merge"))

\* C20, amended: the invocation of a second delivery of an /approve event
\* that reads the thread once a comment stands after the triggering one (the
\* first delivery's closing comment, say) is rejected as a duplicate: it posts
\* the "already used" comment and calls neither createReview nor merge.
C20_RedeliveryAfterLaterCommentIsDuplicate ==
  \A i, j \in Invocations :
     LET r == invs[j]
     IN (/\ SecondDelivery(i, j)
         /\ r.commentBody = Text("/approve")
         /\ r.commentsFetch = "ok"
         /\ Len(r.comments) > r.commentAt)
          => /\ r.isDuplicateCommand
             /\ ~Called(r, "pulls.createReview")
             /\ ~Called(r, "pulls.merge")
             /\ PostsOnly(r, DuplicateMsg(r.commenter))

\* The first delivery has merged the pull request and posted its comment; the
\* second delivery has read the thread after that and ended with the
\* "already used" comment.
C20_Witness ==
  \E i, j \in Invocations :
     /\ SecondDelivery(i, j)
     /\ invs[j].commentBody = Text("/approve")
     /\ Succeeded(invs[i], "pulls.merge")
     /\ Succeeded(invs[i], "issues.createComment")
     /\ invs[j].commentsFetch = "ok"
     /\ Len(invs[j].comments) > invs[j].commentAt
     /\ invs[j].isDuplicateCommand
     /\ invs[j].pc = "returned"
     /\ Succeeded(invs[j], "issues.createComment")
     /\ ~Called(invs[j], "pulls.createReview")

====
